---- MODULE Spec2Model ----
(***************************************************************************)
(* Model of scripts/generate_reference.py: the reference image generator.  *)
(* One run of the script is one behaviour: main() parses the argument,     *)
(* creates the output directory, builds the dataset, and dispatches either *)
(* to one renderer or to generate_all(), which loops over the renderers   *)
(* inside try/except Exception.                                            *)
(*                                                                         *)
(* Every renderer has the same shape (plt.subplots, plotting calls,        *)
(* fig.savefig, plt.close, print) and is modelled as these five steps;     *)
(* a step either completes or raises an Exception.                         *)
(***************************************************************************)
EXTENDS Integers, Sequences, FiniteSets, TLC

VARIABLES
    argv,        \* command line after the script name: <<>> or <<name>>
    rng,         \* state of numpy's global random generator
    dirExists,   \* OUTPUT_DIR exists in the file system
    files,       \* names of the files in OUTPUT_DIR
    dir0,        \* dirExists at process start
    files0,      \* files at process start
    pc,          \* position of the single thread of control
    plotType,    \* args.plot_type
    mainData,    \* `data` of main()
    allData,     \* `data` of generate_all()
    idx,         \* position of generate_all's for loop in `generators`
    name,        \* loop variable `name` of generate_all ("" before the loop)
    current,     \* the renderer function being executed ("" when none)
    fig,         \* figure number held by the running renderer (0 when none)
    figures,     \* figure numbers registered (open) in pyplot
    drawn,       \* values each renderer took from the global random generator
    stdout,      \* lines printed
    trace,       \* call / return / raise events of the renderers
    writes,      \* file names passed to a completed fig.savefig, in order
    raises,      \* number of Exceptions raised by renderers so far
    exitCode,    \* process exit status (-1 while running)
    uncaught     \* the process died of an uncaught exception (traceback)

vars == <<argv, rng, dirExists, files, dir0, files0, pc, plotType, mainData,
          allData, idx, name, current, fig, figures, drawn, stdout, trace,
          writes, raises, exitCode, uncaught>>

----------------------------------------------------------------------------
(* Bounds of the model *)

\* modulus of the modelled random generator state
RngMod == 32
\* sample count n of generate_test_data (1000 in the script)
SampleCount == 2
\* number of points generate_hexbin draws per coordinate (5000 in the script)
HexbinCount == 3
\* number of points generate_errorbar draws (10 in the script)
ErrorbarCount == 2
\* side of the matrix generate_heatmap draws (8 in the script)
HeatmapSide == 2
\* number of renderers that raise within one run
MaxRaises == 2

(* Program constants *)
SEED == 42

----------------------------------------------------------------------------
(* The global pseudo-random generator: a deterministic state machine.      *)

\* np.random.seed(seed): the state becomes a function of the seed alone
SeedState(seed) == seed % RngMod

\* one draw advances the state
StepState(x) == (5 * x + 3) % RngMod

RECURSIVE AfterDraws(_, _)
AfterDraws(x, n) == IF n = 0 THEN x ELSE AfterDraws(StepState(x), n - 1)

\* the n raw values drawn from state x
RECURSIVE RawDraws(_, _)
RawDraws(x, n) ==
    IF n = 0 THEN <<>> ELSE <<StepState(x)>> \o RawDraws(StepState(x), n - 1)

\* np.random.randn(n): centred values
Randn(x, n) == [i \in 1..n |-> RawDraws(x, n)[i] - (RngMod \div 2)]
\* np.random.uniform(lo, hi, n): values within [lo, hi]
Uniform(x, lo, hi, n) == [i \in 1..n |-> lo + (RawDraws(x, n)[i] % (hi - lo + 1))]
\* np.random.exponential(1, n): non-negative values
Exponential(x, n) == RawDraws(x, n)

\* round(10 * sin(k)) for k = 0..10
Sin10 == <<0, 8, 9, 1, -8, -10, -3, 7, 10, 4, -5>>
\* np.linspace(0, 10, n), rounded down
Linspace10(n) == [i \in 1..n |-> IF n = 1 THEN 0 ELSE (10 * (i - 1)) \div (n - 1)]

Shift(s, d) == [i \in 1..Len(s) |-> s[i] + d]

NoData == [normal |-> <<>>, bimodal |-> <<>>, uniform |-> <<>>,
           exponential |-> <<>>, xy |-> <<>>]

GenerateTestData_NoSeed(state, n, seed) ==
    LET s0 == state
        s1 == AfterDraws(s0, n)
        s2 == AfterDraws(s1, n \div 2)
        s3 == AfterDraws(s2, n \div 2)
        s4 == AfterDraws(s3, n)
        s5 == AfterDraws(s4, n)
        s6 == AfterDraws(s5, n)
        x  == Linspace10(n)
        e  == Randn(s5, n)
    IN [data |-> [normal      |-> Randn(s0, n),
                  bimodal     |-> Shift(Randn(s1, n \div 2), -2)
                                  \o Shift(Randn(s2, n \div 2), 2),
                  uniform     |-> Uniform(s3, -3, 3, n),
                  exponential |-> Exponential(s4, n),
                  xy          |-> <<x, [i \in 1..n |-> Sin10[x[i] + 1] + e[i]]>>],
        rng  |-> s6]

\* generate_test_data(n, seed): the dataset and the generator state left behind
GenerateTestData(state, n, seed) ==
    GenerateTestData_NoSeed(SeedState(seed), n, seed)

----------------------------------------------------------------------------
(* Dispatch tables *)

\* the `generators` list of generate_all(): (name, generator) pairs in order
AllGenerators_Swapped ==
    <<
      <<"kde", "generate_kde">>, <<"ecdf", "generate_ecdf">>,
      <<"step", "generate_step">>, <<"violin", "generate_violin">>,
      <<"contour", "generate_contour">>, <<"hexbin", "generate_hexbin">>,
      <<"pie", "generate_pie">>, <<"errorbar", "generate_errorbar">>,
      <<"histogram", "generate_histogram">>, <<"boxplot", "generate_boxplot">>,
      <<"heatmap", "generate_heatmap">>, <<"radar", "generate_radar">>
    >>
AllGenerators_NoRadar ==
    <<
      <<"kde", "generate_kde">>, <<"ecdf", "generate_ecdf">>,
      <<"violin", "generate_violin">>, <<"step", "generate_step">>,
      <<"contour", "generate_contour">>, <<"hexbin", "generate_hexbin">>,
      <<"pie", "generate_pie">>, <<"errorbar", "generate_errorbar">>,
      <<"histogram", "generate_histogram">>, <<"boxplot", "generate_boxplot">>,
      <<"heatmap", "generate_heatmap">>
    >>
AllGenerators ==
    <<
      <<"kde", "generate_kde">>, <<"ecdf", "generate_ecdf">>,
      <<"violin", "generate_violin">>, <<"step", "generate_step">>,
      <<"contour", "generate_contour">>, <<"hexbin", "generate_hexbin">>,
      <<"pie", "generate_pie">>, <<"errorbar", "generate_errorbar">>,
      <<"histogram", "generate_histogram">>, <<"boxplot", "generate_boxplot">>,
      <<"heatmap", "generate_heatmap">>, <<"radar", "generate_radar">>
    >>

\* the `generators` dict of main(): (key, function) pairs in declaration order
MainGenerators ==
    <<
      <<"kde", "generate_kde">>, <<"ecdf", "generate_ecdf">>,
      <<"violin", "generate_violin">>, <<"step", "generate_step">>,
      <<"contour", "generate_contour">>, <<"hexbin", "generate_hexbin">>,
      <<"pie", "generate_pie">>, <<"errorbar", "generate_errorbar">>,
      <<"histogram", "generate_histogram">>, <<"boxplot", "generate_boxplot">>,
      <<"heatmap", "generate_heatmap">>, <<"radar", "generate_radar">>,
      <<"all", "generate_all">>
    >>

Range(s) == {s[i] : i \in 1..Len(s)}

\* the keys of a table of pairs, in order
Keys(table) == [i \in 1..Len(table) |-> table[i][1]]
\* the functions of a table of pairs, in order
Functions(table) == [i \in 1..Len(table) |-> table[i][2]]

\* parser.parse_args(): one optional positional, default 'all'
ParseArgs(a) == IF a = <<>> THEN "all" ELSE a[1]

\* generators[key]: the function the dict holds under the key
Lookup(table, key) ==
    table[CHOOSE i \in 1..Len(table) : table[i][1] = key][2]

\* the file each renderer passes to fig.savefig
SavefigPath_EcdfCopy(fn) ==
    CASE fn = "generate_kde"       -> "kde.png"
      [] fn = "generate_ecdf"      -> "kde.png"
      [] fn = "generate_violin"    -> "violin.png"
      [] fn = "generate_step"      -> "step.png"
      [] fn = "generate_contour"   -> "contour.png"
      [] fn = "generate_hexbin"    -> "hexbin.png"
      [] fn = "generate_pie"       -> "pie.png"
      [] fn = "generate_errorbar"  -> "errorbar.png"
      [] fn = "generate_histogram" -> "histogram.png"
      [] fn = "generate_boxplot"   -> "boxplot.png"
      [] fn = "generate_heatmap"   -> "heatmap.png"
      [] fn = "generate_radar"     -> "radar.png"
SavefigPath(fn) ==
    CASE fn = "generate_kde"       -> "kde.png"
      [] fn = "generate_ecdf"      -> "ecdf.png"
      [] fn = "generate_violin"    -> "violin.png"
      [] fn = "generate_step"      -> "step.png"
      [] fn = "generate_contour"   -> "contour.png"
      [] fn = "generate_hexbin"    -> "hexbin.png"
      [] fn = "generate_pie"       -> "pie.png"
      [] fn = "generate_errorbar"  -> "errorbar.png"
      [] fn = "generate_histogram" -> "histogram.png"
      [] fn = "generate_boxplot"   -> "boxplot.png"
      [] fn = "generate_heatmap"   -> "heatmap.png"
      [] fn = "generate_radar"     -> "radar.png"

\* the output naming of the module docstring: {plot_type}.png
PngOf ==
    [kde |-> "kde.png", ecdf |-> "ecdf.png", violin |-> "violin.png",
     step |-> "step.png", contour |-> "contour.png", hexbin |-> "hexbin.png",
     pie |-> "pie.png", errorbar |-> "errorbar.png",
     histogram |-> "histogram.png", boxplot |-> "boxplot.png",
     heatmap |-> "heatmap.png", radar |-> "radar.png"]

\* try/except Exception around generator(data): only generate_all has one
HandlerCatches_Never(t) == FALSE
HandlerCatches_Always(t) == TRUE
HandlerCatches(t) == t = "all"

\* the count of the summary line: len(generators)
SummaryCount_Written(gens, written) == Len(written)
SummaryCount(gens, written) == Len(gens)

\* exit status of a run of generate_all that has returned to main
AllExitStatus(n) == 0

Line(kind, arg, n) == [kind |-> kind, arg |-> arg, n |-> n]
Event(ev, fn) == [ev |-> ev, name |-> fn]

NoDrawn == [generate_hexbin |-> <<>>, generate_errorbar |-> <<>>,
            generate_heatmap |-> <<>>]

----------------------------------------------------------------------------
(* Initial states *)

\* names given on the command line that are not chart types
UnknownNames == {"scatter", "KDE"}
ArgvSet ==
    {<<>>} \cup {<<t>> : t \in Range(Keys(MainGenerators)) \cup UnknownNames}

\* the output directory at process start: absent, or present and empty
InitialListings == {{}}

Init ==
    /\ argv \in ArgvSet
    /\ rng \in 0..(RngMod - 1)
    /\ dirExists \in BOOLEAN
    /\ files \in (IF dirExists THEN InitialListings ELSE {{}})
    /\ dir0 = dirExists
    /\ files0 = files
    /\ pc = "main"
    /\ plotType = ""
    /\ mainData = NoData
    /\ allData = NoData
    /\ idx = 0
    /\ name = ""
    /\ current = ""
    /\ fig = 0
    /\ figures = {}
    /\ drawn = NoDrawn
    /\ stdout = <<>>
    /\ trace = <<>>
    /\ writes = <<>>
    /\ raises = 0
    /\ exitCode = -1
    /\ uncaught = FALSE

----------------------------------------------------------------------------
(* main() *)

\* lines 388-394: parse_args, ensure_output_dir, generate_test_data
MainPrepare ==
    /\ pc = "main"
    /\ plotType' = ParseArgs(argv)
    /\ dirExists' = TRUE
    /\ mainData' = GenerateTestData(rng, SampleCount, SEED).data
    /\ rng' = GenerateTestData(rng, SampleCount, SEED).rng
    /\ pc' = "dispatch"
    /\ UNCHANGED <<name, argv, files, dir0, files0, allData, idx, current, fig,
                   figures, drawn, stdout, trace, writes, raises, exitCode,
                   uncaught>>

\* lines 412-415: the name is no key of the dispatch table
MainReject ==
    /\ pc = "dispatch"
    /\ plotType \notin Range(Keys(MainGenerators))
    /\ stdout' = stdout \o <<Line("Unknown plot type", plotType, 0),
                             Line("Available types", "", Len(MainGenerators))>>
    /\ exitCode' = 1
    /\ pc' = "exited"
    /\ UNCHANGED <<name, argv, rng, dirExists, files, dir0, files0, plotType,
                   mainData, allData, idx, current, fig, figures, drawn, trace,
                   writes, raises, uncaught>>

\* lines 419-420: generators[args.plot_type](data)
MainCallSingle ==
    /\ pc = "dispatch"
    /\ plotType \in Range(Keys(MainGenerators)) \ {"all"}
    /\ current' = Lookup(MainGenerators, plotType)
    /\ trace' = Append(trace, Event("call", Lookup(MainGenerators, plotType)))
    /\ pc' = "subplots"
    /\ UNCHANGED <<name, argv, rng, dirExists, files, dir0, files0, plotType,
                   mainData, allData, idx, fig, figures, drawn, stdout, writes,
                   raises, exitCode, uncaught>>

----------------------------------------------------------------------------
(* generate_all() *)

\* lines 417-418 and 358-361: print, ensure_output_dir, generate_test_data
GenerateAllBegin ==
    /\ pc = "dispatch"
    /\ plotType = "all"
    /\ stdout' = Append(stdout, Line("Generating reference images in", "", 0))
    /\ dirExists' = TRUE
    /\ allData' = GenerateTestData(rng, SampleCount, SEED).data
    /\ rng' = GenerateTestData(rng, SampleCount, SEED).rng
    /\ idx' = 1
    /\ pc' = "loop"
    /\ UNCHANGED <<name, argv, files, dir0, files0, plotType, mainData, current, fig,
                   figures, drawn, trace, writes, raises, exitCode, uncaught>>

\* lines 378-380: the next (name, generator) of the list is called
LoopCall ==
    /\ pc = "loop"
    /\ idx <= Len(AllGenerators)
    /\ name' = AllGenerators[idx][1]
    /\ current' = AllGenerators[idx][2]
    /\ trace' = Append(trace, Event("call", AllGenerators[idx][2]))
    /\ pc' = "subplots"
    /\ UNCHANGED <<argv, rng, dirExists, files, dir0, files0, plotType,
                   mainData, allData, idx, fig, figures, drawn, stdout, writes,
                   raises, exitCode, uncaught>>

\* line 384, then the return to main and the end of the process
LoopEnd ==
    /\ pc = "loop"
    /\ idx > Len(AllGenerators)
    /\ stdout' = Append(stdout, Line("Generated reference images", "",
                                     SummaryCount(AllGenerators, writes)))
    /\ exitCode' = AllExitStatus(raises)
    /\ pc' = "exited"
    /\ UNCHANGED <<name, argv, rng, dirExists, files, dir0, files0, plotType,
                   mainData, allData, idx, current, fig, figures, drawn, trace,
                   writes, raises, uncaught>>

----------------------------------------------------------------------------
(* The renderers generate_<name>(data) *)

\* plt.subplots registers a new figure under the next free number
NewFigure(open) ==
    IF open = {} THEN 1
    ELSE (CHOOSE m \in open : \A k \in open : k <= m) + 1

\* (matrix + matrix.T), the matrix stored row by row with side k
Symmetrise(m, k) ==
    [i \in 1..(k * k) |->
        m[i] + m[((i - 1) % k) * k + ((i - 1) \div k) + 1]]

\* what the plotting part of a renderer does to the global random generator:
\* the state it leaves and the values it drew
PlotDraws(fn, state) ==
    CASE fn = "generate_hexbin" ->
            LET s == SeedState(SEED)
                x == Randn(s, HexbinCount)
                e == Randn(AfterDraws(s, HexbinCount), HexbinCount)
            IN [rng    |-> AfterDraws(s, 2 * HexbinCount),
                used   |-> TRUE,
                values |-> x \o [i \in 1..HexbinCount |-> 2 * x[i] + e[i]]]
      [] fn = "generate_errorbar" ->
            LET e == Randn(state, ErrorbarCount)
                x == [i \in 1..ErrorbarCount |-> i]
                s == AfterDraws(state, ErrorbarCount)
            IN [rng    |-> AfterDraws(s, ErrorbarCount),
                used   |-> TRUE,
                values |-> [i \in 1..ErrorbarCount |->
                                Sin10[(x[i] % 11) + 1] + e[i]]
                           \o Uniform(s, 1, 3, ErrorbarCount)]
      [] fn = "generate_heatmap" ->
            LET s == SeedState(SEED)
                m == Randn(s, HeatmapSide * HeatmapSide)
            IN [rng    |-> AfterDraws(s, HeatmapSide * HeatmapSide),
                used   |-> TRUE,
                values |-> Symmetrise(m, HeatmapSide)]
      [] OTHER -> [rng |-> state, used |-> FALSE, values |-> <<>>]

\* the effect of the plotting part on rng and drawn
ApplyPlotDraws ==
    LET d == PlotDraws(current, rng)
    IN /\ rng' = d.rng
       /\ drawn' = IF d.used THEN [drawn EXCEPT ![current] = d.values]
                   ELSE drawn

\* an Exception leaves the renderer: caught by generate_all's handler
\* (lines 381-382), or propagated out of main (line 420)
Raised ==
    /\ raises < MaxRaises
    /\ raises' = raises + 1
    /\ trace' = Append(trace, Event("raise", current))
    /\ current' = ""
    /\ fig' = 0
    /\ IF HandlerCatches(plotType)
       THEN /\ stdout' = Append(stdout, Line("Error generating", name, 0))
            /\ idx' = idx + 1
            /\ pc' = "loop"
            /\ UNCHANGED <<exitCode, uncaught>>
       ELSE /\ exitCode' = 1
            /\ uncaught' = TRUE
            /\ pc' = "exited"
            /\ UNCHANGED <<stdout, idx>>

\* the renderer returns to its caller
Returned ==
    /\ trace' = Append(trace, Event("return", current))
    /\ current' = ""
    /\ fig' = 0
    /\ IF plotType = "all"
       THEN /\ idx' = idx + 1
            /\ pc' = "loop"
            /\ UNCHANGED exitCode
       ELSE /\ exitCode' = 0
            /\ pc' = "exited"
            /\ UNCHANGED idx

\* fig, ax = plt.subplots(...)
RenderSubplots ==
    /\ pc = "subplots"
    /\ figures' = figures \cup {NewFigure(figures)}
    /\ fig' = NewFigure(figures)
    /\ pc' = "plot"
    /\ UNCHANGED <<name, argv, rng, dirExists, files, dir0, files0, plotType,
                   mainData, allData, idx, current, drawn, stdout, trace,
                   writes, raises, exitCode, uncaught>>

\* the plotting calls between plt.subplots and fig.savefig
RenderPlot ==
    /\ pc = "plot"
    /\ ApplyPlotDraws
    /\ pc' = "savefig"
    /\ UNCHANGED <<name, argv, dirExists, files, dir0, files0, plotType, mainData,
                   allData, idx, current, fig, figures, stdout, trace, writes,
                   raises, exitCode, uncaught>>

\* fig.savefig(OUTPUT_DIR / '<name>.png')
RenderSavefig ==
    /\ pc = "savefig"
    /\ files' = files \cup {SavefigPath(current)}
    /\ writes' = Append(writes, SavefigPath(current))
    /\ pc' = "close"
    /\ UNCHANGED <<name, argv, rng, dirExists, dir0, files0, plotType, mainData,
                   allData, idx, current, fig, figures, drawn, stdout, trace,
                   raises, exitCode, uncaught>>

\* plt.close(fig)
RenderClose ==
    /\ pc = "close"
    /\ figures' = figures \ {fig}
    /\ pc' = "print"
    /\ UNCHANGED <<name, argv, rng, dirExists, files, dir0, files0, plotType,
                   mainData, allData, idx, current, fig, drawn, stdout, trace,
                   writes, raises, exitCode, uncaught>>

\* print(f"Generated: ..."), then the return
RenderPrint ==
    /\ pc = "print"
    /\ stdout' = Append(stdout, Line("Generated", SavefigPath(current), 0))
    /\ Returned
    /\ UNCHANGED <<name, argv, rng, dirExists, files, dir0, files0, plotType,
                   mainData, allData, figures, drawn, writes, raises, uncaught>>

\* one of the renderer's calls raises an Exception instead of completing:
\* plt.subplots, a plotting call (after the renderer's random draws),
\* fig.savefig or print; plt.close only drops the figure from pyplot's
\* registry and is taken to complete
RenderRaise ==
    /\ pc \in {"subplots", "plot", "savefig", "print"}
    /\ IF pc = "plot" THEN ApplyPlotDraws ELSE UNCHANGED <<rng, drawn>>
    /\ Raised
    /\ UNCHANGED <<name, argv, dirExists, files, dir0, files0, plotType, mainData,
                   allData, figures, writes>>

----------------------------------------------------------------------------

Next ==
    \/ MainPrepare
    \/ MainReject
    \/ MainCallSingle
    \/ GenerateAllBegin
    \/ LoopCall
    \/ LoopEnd
    \/ RenderSubplots
    \/ RenderPlot
    \/ RenderSavefig
    \/ RenderClose
    \/ RenderPrint
    \/ RenderRaise

Spec == Init /\ [][Next]_vars

\* the script is one thread that runs until the process ends
FairSpec == Spec /\ WF_vars(Next)

----------------------------------------------------------------------------
(* Vocabulary of the properties *)

\* the chart-type names: the keys of main's table other than 'all'
ChartTypes == Range(Keys(MainGenerators)) \ {"all"}

Exited == pc = "exited"

IsCall(e) == e.ev = "call"
IsRaise(e) == e.ev = "raise"
IsReturn(e) == e.ev = "return"
IsErrorLine(l) == l.kind = "Error generating"

\* the renderers called so far, in order
CalledFunctions ==
    LET calls == SelectSeq(trace, IsCall)
    IN [i \in 1..Len(calls) |-> calls[i].name]

\* the chart type main's table files a renderer function under
ChartOf(f) == CHOOSE t \in ChartTypes : Lookup(MainGenerators, t) = f

\* number of positions of a sequence holding a value
Count(s, v) == Cardinality({i \in 1..Len(s) : s[i] = v})

IsPrefix(s, t) == Len(s) <= Len(t) /\ s = SubSeq(t, 1, Len(s))

\* main's table without its 'all' entry, in declaration order
IsChartEntry(pair) == pair[1] # "all"
MainChartEntries == SelectSeq(MainGenerators, IsChartEntry)

\* the dataset of a fixed other run, whose generator started in state 0
ReferenceData == GenerateTestData(0, SampleCount, SEED).data

\* what generate_errorbar draws when it is the only renderer of the run
ErrorbarAlone ==
    PlotDraws("generate_errorbar",
              GenerateTestData(0, SampleCount, SEED).rng).values

----------------------------------------------------------------------------
(* The claims *)

\* C1: a run with a plot_type that is no key of the dispatch table exits
\* with status 1, invokes no renderer, and leaves the file system as it was
\* at process start (no new entry appears).
C1_UnknownTypeChangesNothing ==
    (Exited /\ plotType \notin Range(Keys(MainGenerators)))
        => /\ exitCode = 1
           /\ trace = <<>>
           /\ files = files0
           /\ dirExists = dir0

\* C2: a run with 'all' (or no argument) on an empty output directory in
\* which no renderer raises ends with exactly the 12 files <type>.png, one
\* per chart type, and each renderer has written exactly one file.
C2_AllWritesOneFilePerType ==
    (Exited /\ plotType = "all" /\ files0 = {} /\ raises = 0)
        => /\ files = {PngOf[t] : t \in ChartTypes}
           /\ Cardinality(files) = 12
           /\ Len(writes) = 12
           /\ \A t \in ChartTypes : Count(writes, PngOf[t]) = 1

C2_Witness ==
    /\ Exited /\ argv = <<>> /\ plotType = "all" /\ files0 = {} /\ raises = 0
    /\ "step.png" \in files

\* C3: a run with one valid chart-type name t on an empty output directory
\* whose renderer does not raise ends with exactly the file t.png; only the
\* renderer for t was invoked, exactly once.
C3_SingleWritesOnlyItsFile ==
    (Exited /\ plotType \in ChartTypes /\ files0 = {} /\ raises = 0)
        => /\ files = {PngOf[plotType]}
           /\ writes = <<PngOf[plotType]>>
           /\ trace = <<Event("call", Lookup(MainGenerators, plotType)),
                        Event("return", Lookup(MainGenerators, plotType))>>

C3_Witness ==
    /\ Exited /\ plotType = "ecdf" /\ files0 = {} /\ raises = 0
    /\ files = {"ecdf.png"}

\* C4: in the 'all' path, whichever renderers raise, no renderer is invoked
\* twice and at the end every one of the 12 has been invoked exactly once;
\* each raise is caught and logged with the chart name of the renderer that
\* raised, and every renderer that returned has its file in the directory.
C4_AllContinuesAfterRaise ==
    plotType = "all"
        => LET called == CalledFunctions
               raised == SelectSeq(trace, IsRaise)
               errors == SelectSeq(stdout, IsErrorLine)
           IN /\ \A t \in ChartTypes :
                    Count(called, Lookup(MainGenerators, t)) <= 1
              /\ Exited => \A t \in ChartTypes :
                    Count(called, Lookup(MainGenerators, t)) = 1
              /\ Exited => Len(called) = 12
              /\ Len(errors) = Len(raised)
              /\ \A i \in 1..Len(raised) :
                    errors[i].arg = ChartOf(raised[i].name)
              /\ \A i \in 1..Len(trace) :
                    IsReturn(trace[i])
                        => PngOf[ChartOf(trace[i].name)] \in files

C4_Witness ==
    /\ Exited /\ plotType = "all" /\ raises > 0
    /\ trace[2] = Event("raise", "generate_kde")
    /\ trace[Len(trace)] = Event("return", "generate_radar")
    /\ "radar.png" \in files

\* C5: when a single named renderer raises, the exception is not caught: the
\* process ends at once with a non-zero status by an uncaught exception, no
\* 'Error generating' line is printed and no other renderer runs.
C5_SingleRaisePropagates ==
    (plotType \in ChartTypes /\ raises > 0)
        => /\ Exited
           /\ uncaught
           /\ exitCode # 0
           /\ SelectSeq(stdout, IsErrorLine) = <<>>
           /\ trace = <<Event("call", Lookup(MainGenerators, plotType)),
                        Event("raise", Lookup(MainGenerators, plotType))>>

C5_Witness ==
    /\ plotType = "boxplot" /\ raises > 0 /\ uncaught /\ fig = 0
    /\ figures # {}

\* C6: generate_test_data() with the default seed returns the same dataset
\* whatever the state of the global generator before the call: the dataset
\* of main() equals that of any other run, and in an 'all' run the dataset
\* built again by generate_all() is identical to it.
C6_DatasetReproducible ==
    /\ pc # "main" => mainData = ReferenceData
    /\ (plotType = "all" /\ idx >= 1)
            => (allData = mainData /\ allData = ReferenceData)

C6_Witness ==
    /\ plotType = "all" /\ idx >= 1
    /\ allData # NoData
    /\ Len(allData.bimodal) = 2 * (SampleCount \div 2)

\* C7: in the 'all' path the renderers run one after another in the order
\* kde, ecdf, violin, step, contour, hexbin, pie, errorbar, histogram,
\* boxplot, heatmap, radar: a renderer is called only after the one before
\* it has returned or raised, and the order and the names are those of the
\* dispatch table of main() without 'all'.
C7_AllRunsInDeclarationOrder ==
    plotType = "all"
        => LET called == CalledFunctions
           IN /\ IsPrefix(called, Functions(MainChartEntries))
              /\ IsPrefix([i \in 1..Len(called) |-> ChartOf(called[i])],
                          <<"kde", "ecdf", "violin", "step", "contour",
                            "hexbin", "pie", "errorbar", "histogram",
                            "boxplot", "heatmap", "radar">>)
              /\ Keys(AllGenerators) = Keys(MainChartEntries)
              /\ \A i \in 1..Len(trace) :
                    IF i % 2 = 1
                    THEN IsCall(trace[i])
                    ELSE /\ IsReturn(trace[i]) \/ IsRaise(trace[i])
                         /\ trace[i].name = trace[i - 1].name
              /\ current # "" <=> Len(trace) % 2 = 1

C7_Witness ==
    /\ Exited /\ plotType = "all" /\ Len(trace) = 24
    /\ trace[7] = Event("call", "generate_step")

\* C8: renderers share no mutable state: the values generate_errorbar takes
\* from the global random generator are the same whether it runs alone or
\* inside the 'all' sequence, and whether or not an earlier renderer raised.
C8_ErrorbarDrawsIndependent ==
    drawn.generate_errorbar # <<>> => drawn.generate_errorbar = ErrorbarAlone

\* C9: at most one figure is open in every state, and when a renderer has
\* finished (returned or raised) its figure has been closed: no figure is
\* open between renderers or when the run ends.
C9_FigureAlwaysReleased ==
    /\ Cardinality(figures) <= 1
    /\ current = "" => figures = {}

\* C10: an 'all' run always terminates normally whatever renderers raised:
\* it prints the summary line reporting 12 reference images and the process
\* exits with status 0.
C10_AllRunTerminatesNormally ==
    (ParseArgs(argv) = "all")
        ~> /\ Exited
           /\ exitCode = 0
           /\ ~uncaught
           /\ stdout[Len(stdout)] = Line("Generated reference images", "", 12)

C10_Witness ==
    /\ Exited /\ plotType = "all" /\ raises > 0 /\ exitCode = 0
    /\ Len(writes) < 12
    /\ stdout[Len(stdout)].n = 12

====
